---- MODULE Spec2Model ----
(***************************************************************************)
(* Model of the Notion MCP server (src/server.js): the property normalizer *)
(* extractAllProperties, the block renderer and pager of getPageContent,   *)
(* and the two tool handlers search_notion and get_notion_page.            *)
(*                                                                         *)
(* JavaScript values are tagged records, so that undefined, null, "" and   *)
(* [] stay distinct.  JavaScript strings are TLA+ strings; a TLA+ string   *)
(* holds neither a non-ASCII code point nor a backquote, so those          *)
(* characters of MARKDOWN_SYMBOLS are spelled by their JavaScript escapes  *)
(* (\u2022, \x60, ...); the only measure the code takes of a string is     *)
(* length > 0.                                                             *)
(***************************************************************************)
EXTENDS Integers, Sequences, FiniteSets, TLC

VARIABLES
    pc,        \* per invocation: "idle", "retrieve", "list", "search", "done"
    tool,      \* per invocation: the tool that was called
    page,      \* per invocation: const page of getPageContent
    blocks,    \* per invocation: const blocks of getPageContent (the accumulator)
    cursor,    \* per invocation: let cursor of getPageContent
    calls,     \* per invocation: the upstream calls issued so far, in order
    resps,     \* per invocation: the upstream responses received so far, in order
    pageData,  \* per invocation: what the promise of getPageContent settled to
    outcome,   \* per invocation: what the handler's promise settled to
    rIn,       \* renderer harness: the block sequence handed to the block map
    rOut,      \* renderer harness: the per-block renders and the joined content
    pIn,       \* normalizer harness: the page handed to extractAllProperties
    pOut       \* normalizer harness: its completion

vars == <<pc, tool, page, blocks, cursor, calls, resps, pageData, outcome, rIn, rOut, pIn, pOut>>
machineVars == <<pc, tool, page, blocks, cursor, calls, resps, pageData, outcome>>
renderVars == <<rIn, rOut>>
propVars == <<pIn, pOut>>

-----------------------------------------------------------------------------
(* JavaScript values and completions *)

Undefined == [t |-> "undefined"]
Null == [t |-> "null"]
Str(s) == [t |-> "string", s |-> s]
Num(n) == [t |-> "number", n |-> n]
Bool(b) == [t |-> "boolean", b |-> b]
Arr(a) == [t |-> "array", a |-> a]
Obj(o) == [t |-> "object", o |-> o]

\* a normal completion carrying v, or an abrupt one carrying the thrown Error's message
Ok(v) == [ok |-> TRUE, v |-> v]
Throw(m) == [ok |-> FALSE, message |-> m]

IsNullish(v) == v.t \in {"undefined", "null"}

\* ToBoolean
Truthy(v) ==
    CASE v.t = "undefined" -> FALSE
      [] v.t = "null" -> FALSE
      [] v.t = "string" -> v.s # ""
      [] v.t = "number" -> v.n # 0
      [] v.t = "boolean" -> v.b
      [] v.t \in {"array", "object"} -> TRUE

\* ToString, as a template literal or Array.prototype.join applies it to a hole
ToStr(v) ==
    CASE v.t = "undefined" -> "undefined"
      [] v.t = "null" -> "null"
      [] v.t = "string" -> v.s
      [] v.t = "boolean" -> IF v.b THEN "true" ELSE "false"

\* v[k] on a value that is neither undefined nor null: an own property or undefined
Get(v, k) == IF v.t = "object" /\ k \in DOMAIN v.o THEN v.o[k] ELSE Undefined

\* the message of the TypeError V8 raises for v[k] when v is undefined or null
CannotRead(v, k) == "Cannot read properties of " \o v.t \o " (reading '" \o k \o "')"

\* o[k] = v on an object created by the literal {}: the key "__proto__" reaches
\* Object.prototype's accessor, which creates no own property
ObjSet(o, k, v) ==
    IF k = "__proto__" THEN o
    ELSE [x \in (DOMAIN o) \cup {k} |-> IF x = k THEN v ELSE o[x]]

\* Array.prototype.join('') : undefined and null elements contribute ""
RECURSIVE JoinEmpty(_)
JoinEmpty(a) ==
    IF a = <<>> THEN ""
    ELSE (IF IsNullish(Head(a)) THEN "" ELSE ToStr(Head(a))) \o JoinEmpty(Tail(a))

\* a.map(e => e[k]) on an array a: throws at the first undefined or null element
MapField(a, k) ==
    IF \E j \in 1..Len(a) : IsNullish(a[j])
    THEN LET j == CHOOSE j \in 1..Len(a) :
                     IsNullish(a[j]) /\ \A h \in 1..(j - 1) : ~IsNullish(a[h])
         IN Throw(CannotRead(a[j], k))
    ELSE Ok([j \in 1..Len(a) |-> Get(a[j], k)])

-----------------------------------------------------------------------------
(* String constants of the program *)

MARKDOWN_SYMBOLS ==
    [H1 |-> "# ", H2 |-> "## ", H3 |-> "### ",
     BULLET |-> "\\u2022 ", NUMBER |-> "1. ",
     CHECKED |-> "\\u2713", UNCHECKED |-> "\\u25CB",
     TOGGLE |-> "\\u25B8 ", QUOTE |-> "> ", DIVIDER |-> "---",
     CODE_BLOCK_START |-> "\\x60\\x60\\x60",
     CODE_BLOCK_END |-> "\n\\x60\\x60\\x60",
     NEWLINE |-> "\n", DOUBLE_NEWLINE |-> "\n\n"]

PROPERTY_TYPES ==
    {"title", "rich_text", "number", "select", "multi_select", "date",
     "checkbox", "url", "email", "phone_number", "people", "relation"}

BLOCK_TYPES ==
    {"paragraph", "heading_1", "heading_2", "heading_3", "bulleted_list_item",
     "numbered_list_item", "to_do", "toggle", "code", "quote", "divider"}

-----------------------------------------------------------------------------
(* The block renderer: the callback of blocks.map in getPageContent *)

\* payload[rich_text].map(t => t[plain_text]).join('') for payload = block[kind];
\* rich_text is absent, null or an array
joinedRunText(payload) ==
    IF IsNullish(payload) THEN Throw(CannotRead(payload, "rich_text"))
    ELSE LET rt == Get(payload, "rich_text") IN
         IF IsNullish(rt) THEN Throw(CannotRead(rt, "map"))
         ELSE LET m == MapField(rt.a, "plain_text") IN
              IF m.ok THEN Ok(JoinEmpty(m.v)) ELSE m

\* `${prefix}${...join('')}`
prefixed(prefix, text) == IF text.ok THEN Ok(prefix \o text.v) ELSE text

\* a to_do arm that ignores the checked flag
renderToDoUnchecked(payload) ==
    prefixed(MARKDOWN_SYMBOLS.UNCHECKED \o " ", joinedRunText(payload))

\* the to_do arm: block.to_do.checked is read before the runs
renderToDo(payload) ==
    IF IsNullish(payload) THEN Throw(CannotRead(payload, "checked"))
    ELSE LET checked == IF Truthy(Get(payload, "checked"))
                        THEN MARKDOWN_SYMBOLS.CHECKED
                        ELSE MARKDOWN_SYMBOLS.UNCHECKED
         IN prefixed(checked \o " ", joinedRunText(payload))

\* the code arm: block.code.language is read before the runs
renderCode(payload) ==
    IF IsNullish(payload) THEN Throw(CannotRead(payload, "language"))
    ELSE LET text == joinedRunText(payload) IN
         IF text.ok
         THEN Ok(MARKDOWN_SYMBOLS.CODE_BLOCK_START \o ToStr(Get(payload, "language"))
                 \o MARKDOWN_SYMBOLS.NEWLINE \o text.v \o MARKDOWN_SYMBOLS.CODE_BLOCK_END)
         ELSE text

renderBlock(block) ==
    LET type == Get(block, "type") IN
    IF type = Str("paragraph") THEN joinedRunText(Get(block, "paragraph"))
    ELSE IF type = Str("heading_1")
        THEN prefixed(MARKDOWN_SYMBOLS.H1, joinedRunText(Get(block, "heading_1")))
    ELSE IF type = Str("heading_2")
        THEN prefixed(MARKDOWN_SYMBOLS.H2, joinedRunText(Get(block, "heading_2")))
    ELSE IF type = Str("heading_3")
        THEN prefixed(MARKDOWN_SYMBOLS.H3, joinedRunText(Get(block, "heading_3")))
    ELSE IF type = Str("bulleted_list_item")
        THEN prefixed(MARKDOWN_SYMBOLS.BULLET, joinedRunText(Get(block, "bulleted_list_item")))
    ELSE IF type = Str("numbered_list_item")
        THEN prefixed(MARKDOWN_SYMBOLS.NUMBER, joinedRunText(Get(block, "numbered_list_item")))
    ELSE IF type = Str("to_do") THEN renderToDo(Get(block, "to_do"))
    ELSE IF type = Str("toggle")
        THEN prefixed(MARKDOWN_SYMBOLS.TOGGLE, joinedRunText(Get(block, "toggle")))
    ELSE IF type = Str("code") THEN renderCode(Get(block, "code"))
    ELSE IF type = Str("quote")
        THEN prefixed(MARKDOWN_SYMBOLS.QUOTE, joinedRunText(Get(block, "quote")))
    ELSE IF type = Str("divider") THEN Ok(MARKDOWN_SYMBOLS.DIVIDER)
    ELSE Ok("[" \o ToStr(type) \o "]")

\* no filter
keepAll(texts) == texts

\* .filter(text => text.length > 0)
RECURSIVE filterNonEmpty(_)
filterNonEmpty(texts) ==
    IF texts = <<>> THEN <<>>
    ELSE IF Len(Head(texts)) > 0
         THEN <<Head(texts)>> \o filterNonEmpty(Tail(texts))
         ELSE filterNonEmpty(Tail(texts))

\* Array.prototype.join(sep) of strings
RECURSIVE joinWith(_, _)
joinWith(texts, sep) ==
    IF texts = <<>> THEN ""
    ELSE IF Len(texts) = 1 THEN Head(texts)
    ELSE Head(texts) \o sep \o joinWith(Tail(texts), sep)

\* blocks.map(render): the renders in block order, or the first throw
mapRender(bs) ==
    LET rs == [j \in 1..Len(bs) |-> renderBlock(bs[j])] IN
    IF \E j \in 1..Len(bs) : ~rs[j].ok
    THEN rs[CHOOSE j \in 1..Len(bs) : ~rs[j].ok /\ \A h \in 1..(j - 1) : rs[h].ok]
    ELSE Ok([j \in 1..Len(bs) |-> rs[j].v])

\* blocks.map(...).filter(...) and content.join(DOUBLE_NEWLINE)
renderContent(bs) ==
    LET m == mapRender(bs) IN
    IF m.ok THEN Ok(joinWith(filterNonEmpty(m.v), MARKDOWN_SYMBOLS.DOUBLE_NEWLINE))
    ELSE m

-----------------------------------------------------------------------------
(* The property normalizer: extractAllProperties *)

\* x || d
OrElse(x, d) == IF Truthy(x) THEN x ELSE d

\* value[type]?.map(t => t[plain_text]).join('') || ''
textProperty(sub) ==
    IF IsNullish(sub) THEN Ok(OrElse(Undefined, Str("")))
    ELSE LET m == MapField(sub.a, "plain_text") IN
         IF m.ok THEN Ok(OrElse(Str(JoinEmpty(m.v)), Str(""))) ELSE m

\* value.select?.name || null
selectProperty(sub) ==
    Ok(OrElse(IF IsNullish(sub) THEN Undefined ELSE Get(sub, "name"), Null))

\* value.multi_select?.map(s => s.name) || []
multiSelectProperty(sub) ==
    IF IsNullish(sub) THEN Ok(OrElse(Undefined, Arr(<<>>)))
    ELSE LET m == MapField(sub.a, "name") IN
         IF m.ok THEN Ok(OrElse(Arr(m.v), Arr(<<>>))) ELSE m

\* value.date?.start || null
dateProperty(sub) ==
    Ok(OrElse(IF IsNullish(sub) THEN Undefined ELSE Get(sub, "start"), Null))

\* value.people?.map(p => p.name || p.id) || []
peopleProperty(sub) ==
    IF IsNullish(sub) THEN Ok(OrElse(Undefined, Arr(<<>>)))
    ELSE LET names == MapField(sub.a, "name")
             ids == MapField(sub.a, "id")
         IN IF names.ok
            THEN Ok(OrElse(Arr([j \in 1..Len(sub.a) |-> OrElse(names.v[j], ids.v[j])]),
                           Arr(<<>>)))
            ELSE names

\* value.relation?.map(r => r.id) || []
relationProperty(sub) ==
    IF IsNullish(sub) THEN Ok(OrElse(Undefined, Arr(<<>>)))
    ELSE LET m == MapField(sub.a, "id") IN
         IF m.ok THEN Ok(OrElse(Arr(m.v), Arr(<<>>))) ELSE m

\* the body of the for loop: the value assigned to properties[key]; the payload
\* of an array-valued kind is absent, null or an array
normalizeProperty(value) ==
    LET type == Get(value, "type") IN
    IF type = Str("title") \/ type = Str("rich_text")
        THEN textProperty(Get(value, type.s))
    ELSE IF type = Str("number") THEN Ok(Get(value, "number"))
    ELSE IF type = Str("select") THEN selectProperty(Get(value, "select"))
    ELSE IF type = Str("multi_select") THEN multiSelectProperty(Get(value, "multi_select"))
    ELSE IF type = Str("date") THEN dateProperty(Get(value, "date"))
    ELSE IF type = Str("checkbox") THEN Ok(Get(value, "checkbox"))
    ELSE IF type = Str("url") THEN Ok(Get(value, "url"))
    ELSE IF type = Str("email") THEN Ok(Get(value, "email"))
    ELSE IF type = Str("phone_number") THEN Ok(Get(value, "phone_number"))
    ELSE IF type = Str("people") THEN peopleProperty(Get(value, "people"))
    ELSE IF type = Str("relation") THEN relationProperty(Get(value, "relation"))
    ELSE Ok(value)

\* properties[key] = ... for every key of keys, starting from o
RECURSIVE assignAll(_, _, _)
assignAll(o, keys, vals) ==
    IF keys = {} THEN o
    ELSE LET k == CHOOSE k \in keys : TRUE IN
         assignAll(ObjSet(o, k, vals[k].v), keys \ {k}, vals)

\* page.properties is absent, null or an object whose values are objects; when
\* several values throw, which one the loop meets first is not modelled
extractAllProperties(pg) ==
    LET src == OrElse(Get(pg, "properties"), Obj(<<>>)).o
        vals == [k \in DOMAIN src |-> normalizeProperty(src[k])]
    IN IF \E k \in DOMAIN src : ~vals[k].ok
       THEN vals[CHOOSE k \in DOMAIN src : ~vals[k].ok]
       ELSE Ok(Obj(assignAll(<<>>, DOMAIN src, vals)))

-----------------------------------------------------------------------------
(* Inputs of the two pure transforms *)

\* {type: kind} and {type: kind, [kind]: sub}
Bare(kind) == Obj([k \in {"type"} |-> Str(kind)])
WithSub(kind, sub) == Obj([k \in {"type", kind} |-> IF k = "type" THEN Str(kind) ELSE sub])

Run(text) == Obj([plain_text |-> Str(text)])
Named(name) == Obj([name |-> Str(name)])

RunLists == {<<>>, <<Run("Hi")>>, <<Run("Hi"), Run(" there")>>, <<Run("")>>}

\* property values: for each kind the payload absent, null and well-formed
PropValues ==
    {Bare(k) : k \in PROPERTY_TYPES \cup {"formula"}}
    \cup {WithSub(k, Null) : k \in PROPERTY_TYPES}
    \cup {WithSub(k, Arr(r)) : k \in {"title", "rich_text"}, r \in RunLists}
    \cup {WithSub("number", Num(n)) : n \in {0, 42}}
    \cup {WithSub("select", Named("A"))}
    \cup {WithSub("multi_select", Arr(a)) : a \in {<<>>, <<Named("A"), Named("B")>>}}
    \cup {WithSub("date", Obj([start |-> Str("2024-01-01"), end |-> Null]))}
    \cup {WithSub("checkbox", Bool(b)) : b \in BOOLEAN}
    \cup {WithSub(k, Str("x")) : k \in {"url", "email", "phone_number"}}
    \cup {WithSub("people", Arr(a)) :
            a \in {<<>>, <<Obj([name |-> Str("Ann"), id |-> Str("u1")]),
                           Obj([id |-> Str("u2")])>>}}
    \cup {WithSub("relation", Arr(a)) : a \in {<<>>, <<Obj([id |-> Str("p2")])>>}}
    \cup {WithSub("formula", Obj([string |-> Str("f")]))}

\* property names are chosen by the workspace's users
PropKeys == {"Name", "Status", "__proto__"}

MaxProps == 2

PageOf(props) ==
    Obj([id |-> Str("p1"), url |-> Str("https://notion.so/p1"), properties |-> props])

PropPages ==
    {Obj([id |-> Str("p1"), url |-> Str("https://notion.so/p1")])}
    \cup {PageOf(Obj(o)) : o \in UNION {[K -> PropValues] :
                                 K \in {K \in SUBSET PropKeys : Cardinality(K) <= MaxProps}}}

\* blocks: every kind with its payload absent, without runs, and well-formed
RenderKinds == BLOCK_TYPES \cup {"image"}

BlockPayloads ==
    {Obj(<<>>), Obj([rich_text |-> Null])}
    \cup {Obj([rich_text |-> Arr(r)]) : r \in RunLists}
    \cup {Obj([rich_text |-> Arr(r), checked |-> Bool(b)]) :
            r \in {<<>>, <<Run("Buy milk")>>}, b \in BOOLEAN}
    \cup {Obj([rich_text |-> Arr(r), language |-> Str(l)]) :
            r \in {<<>>, <<Run("x = 1")>>}, l \in {"", "js"}}

RenderBlocks ==
    {Bare(k) : k \in RenderKinds} \cup {WithSub(k, p) : k \in RenderKinds, p \in BlockPayloads}

-----------------------------------------------------------------------------
(* The transforms applied to one drawn input each *)

InitIdleMachine ==
    /\ pc = <<>> /\ tool = <<>> /\ page = <<>> /\ blocks = <<>> /\ cursor = <<>>
    /\ calls = <<>> /\ resps = <<>> /\ pageData = <<>> /\ outcome = <<>>

InitRender ==
    /\ InitIdleMachine
    /\ rIn \in RenderBlocks /\ rOut = <<>>
    /\ pIn = Null /\ pOut = <<>>

Render ==
    /\ rOut = <<>>
    /\ rOut' = <<renderBlock(rIn)>>
    /\ UNCHANGED <<machineVars, rIn, propVars>>

SpecRender == InitRender /\ [][Render]_vars

InitProps ==
    /\ InitIdleMachine
    /\ rIn = Null /\ rOut = <<>>
    /\ pIn \in PropPages /\ pOut = <<>>

Extract ==
    /\ pOut = <<>>
    /\ pOut' = <<extractAllProperties(pIn)>>
    /\ UNCHANGED <<machineVars, renderVars, pIn>>

SpecProps == InitProps /\ [][Extract]_vars

-----------------------------------------------------------------------------
(* getPageContent and the two tool handlers *)

\* a loop that stops on null alone
continuesUnlessNull(c) == c # Null

\* while (cursor)
loopContinues(c) == Truthy(c)

\* an accumulator that keeps the last response only
replaceResults(bs, results) == results

\* blocks.push(...response.results)
pushResults(bs, results) == bs \o results

\* cursor = response.next_cursor, the start_cursor of the next listing call
adoptCursor(response) == Get(response, "next_cursor")

\* blocks and cursor held at module level, one pair for all invocations
sharedScope(i) == 1

\* the activation of getPageContent that holds the blocks and cursor an
\* invocation uses: they are locals, one pair per call
scope(i) == i

\* lines 219-271: the block map, the filter and the returned bundle
pageContentBundle(pg, bs) ==
    LET content == renderContent(bs) IN
    IF ~content.ok THEN content
    ELSE LET props == extractAllProperties(pg) IN
         IF ~props.ok THEN props
         ELSE Ok([page |-> pg, properties |-> props.v, content |-> content.v, blocks |-> bs])

\* catch (error) { throw new Error(`Failed to get page content: ${error.message}`) }
getPageContentCatch(c) ==
    IF c.ok THEN c ELSE Throw("Failed to get page content: " \o c.message)

\* a catch that returns what was fetched before the failure
deliverPartial(pg, bs, cause) == pageContentBundle(pg, bs)

\* an await that rejects inside the try leaves it for the catch: no later
\* statement of the try runs, whatever page and blocks hold
abandonOnFailure(pg, bs, cause) == getPageContentCatch(Throw(cause))

\* the get_notion_page handler around getPageContent; the payload is the object
\* handed to JSON.stringify
getNotionPage(page_id, c) ==
    IF c.ok
    THEN Ok([page_id |-> page_id,
             url |-> Get(c.v.page, "url"),
             properties |-> c.v.properties,
             content |-> c.v.content,
             total_blocks |-> Len(c.v.blocks)])
    ELSE Throw("Failed to get page: " \o c.message)

\* response.results.map(page => ({id, url, created_time, last_edited_time, properties}))
searchResults(pages) ==
    LET ps == [j \in 1..Len(pages) |-> extractAllProperties(pages[j])] IN
    IF \E j \in 1..Len(pages) : ~ps[j].ok
    THEN ps[CHOOSE j \in 1..Len(pages) : ~ps[j].ok /\ \A h \in 1..(j - 1) : ps[h].ok]
    ELSE Ok([j \in 1..Len(pages) |->
                [id |-> Get(pages[j], "id"),
                 url |-> Get(pages[j], "url"),
                 created_time |-> Get(pages[j], "created_time"),
                 last_edited_time |-> Get(pages[j], "last_edited_time"),
                 properties |-> ps[j].v]])

\* the search_notion handler after its one search call settled with c
searchNotion(query, c) ==
    LET r == IF c.ok THEN searchResults(Get(c.v, "results").a) ELSE c IN
    IF r.ok
    THEN Ok([query |-> query, total_results |-> Len(r.v), results |-> r.v])
    ELSE Throw("Failed to search Notion: " \o r.message)

NoTool == [name |-> "none"]
Pending == [pending |-> TRUE]

\* a listing call that always starts from the beginning
ListCallFromStart(id, c) ==
    [op |-> "blocks.children.list", block_id |-> id, start_cursor |-> Undefined]

ListCall(id, c) == [op |-> "blocks.children.list", block_id |-> id, start_cursor |-> c]
ListResponse(results, next) == Obj([results |-> Arr(results), next_cursor |-> next])

\* the listing calls an invocation has issued
ListCalls(i) == SelectSeq(calls[i], LAMBDA c : c.op = "blocks.children.list")

InitMachine(n) ==
    /\ pc = [i \in 1..n |-> "idle"]
    /\ tool = [i \in 1..n |-> NoTool]
    /\ page = [i \in 1..n |-> Undefined]
    /\ blocks = [i \in 1..n |-> <<>>]
    /\ cursor = [i \in 1..n |-> Undefined]
    /\ calls = [i \in 1..n |-> <<>>]
    /\ resps = [i \in 1..n |-> <<>>]
    /\ pageData = [i \in 1..n |-> Pending]
    /\ outcome = [i \in 1..n |-> Pending]
    /\ rIn = Null /\ rOut = <<>> /\ pIn = Null /\ pOut = <<>>

\* get_notion_page is called: getPageContent starts and awaits notion.pages.retrieve
CallGetPage(i, w) ==
    /\ pc[i] = "idle"
    /\ \E id \in w.pageIds :
        /\ tool' = [tool EXCEPT ![i] = [name |-> "get_notion_page", page_id |-> id]]
        /\ calls' = [calls EXCEPT ![i] = <<[op |-> "pages.retrieve", page_id |-> id]>>]
    /\ pc' = [pc EXCEPT ![i] = "retrieve"]
    /\ UNCHANGED <<page, blocks, cursor, resps, pageData, outcome, renderVars, propVars>>

\* the retrieval resolves: blocks = [], cursor = undefined, and the first listing
\* call is issued
RetrieveOk(i, w) ==
    /\ pc[i] = "retrieve"
    /\ \E pg \in w.pages :
        /\ resps' = [resps EXCEPT ![i] = Append(@, Ok(pg))]
        /\ page' = [page EXCEPT ![i] = pg]
    /\ blocks' = [blocks EXCEPT ![scope(i)] = <<>>]
    /\ cursor' = [cursor EXCEPT ![scope(i)] = Undefined]
    /\ calls' = [calls EXCEPT ![i] = Append(@, ListCall(tool[i].page_id, cursor'[scope(i)]))]
    /\ pc' = [pc EXCEPT ![i] = "list"]
    /\ UNCHANGED <<tool, pageData, outcome, renderVars, propVars>>

\* the retrieval rejects
RetrieveFail(i, w) ==
    /\ pc[i] = "retrieve"
    /\ \E cause \in w.causes :
        /\ resps' = [resps EXCEPT ![i] = Append(@, Throw(cause))]
        /\ pageData' = [pageData EXCEPT ![i] = getPageContentCatch(Throw(cause))]
        /\ outcome' = [outcome EXCEPT ![i] = getNotionPage(tool[i].page_id, pageData'[i])]
    /\ pc' = [pc EXCEPT ![i] = "done"]
    /\ UNCHANGED <<tool, page, blocks, cursor, calls, renderVars, propVars>>

\* a listing call resolves: one turn of the do/while, then either the next
\* listing call or the rest of getPageContent and of the handler
ListOk(i, w) ==
    /\ pc[i] = "list"
    /\ \E results \in w.resultLists, next \in w.cursors :
        /\ Len(blocks[scope(i)]) + Len(results) <= w.maxBlocks
        /\ Truthy(next) => Len(ListCalls(i)) < w.maxCalls
        /\ resps' = [resps EXCEPT ![i] = Append(@, Ok(ListResponse(results, next)))]
        /\ blocks' = [blocks EXCEPT ![scope(i)] = pushResults(@, results)]
        /\ cursor' = [cursor EXCEPT ![scope(i)] = adoptCursor(ListResponse(results, next))]
    /\ IF loopContinues(cursor'[scope(i)])
       THEN /\ calls' = [calls EXCEPT ![i] =
                    Append(@, ListCall(tool[i].page_id, cursor'[scope(i)]))]
            /\ UNCHANGED <<pc, pageData, outcome>>
       ELSE /\ pageData' = [pageData EXCEPT ![i] =
                    getPageContentCatch(pageContentBundle(page[i], blocks'[scope(i)]))]
            /\ outcome' = [outcome EXCEPT ![i] = getNotionPage(tool[i].page_id, pageData'[i])]
            /\ pc' = [pc EXCEPT ![i] = "done"]
            /\ UNCHANGED calls
    /\ UNCHANGED <<tool, page, renderVars, propVars>>

\* a listing call rejects
ListFail(i, w) ==
    /\ pc[i] = "list"
    /\ \E cause \in w.causes :
        /\ resps' = [resps EXCEPT ![i] = Append(@, Throw(cause))]
        /\ pageData' = [pageData EXCEPT ![i] =
               abandonOnFailure(page[i], blocks[scope(i)], cause)]
        /\ outcome' = [outcome EXCEPT ![i] = getNotionPage(tool[i].page_id, pageData'[i])]
    /\ pc' = [pc EXCEPT ![i] = "done"]
    /\ UNCHANGED <<tool, page, blocks, cursor, calls, renderVars, propVars>>

\* search_notion is called and awaits notion.search
CallSearch(i, w) ==
    /\ pc[i] = "idle"
    /\ \E q \in w.queries :
        /\ tool' = [tool EXCEPT ![i] = [name |-> "search_notion", query |-> q]]
        /\ calls' = [calls EXCEPT ![i] = <<[op |-> "search", query |-> q]>>]
    /\ pc' = [pc EXCEPT ![i] = "search"]
    /\ UNCHANGED <<page, blocks, cursor, resps, pageData, outcome, renderVars, propVars>>

\* the search call resolves
SearchOk(i, w) ==
    /\ pc[i] = "search"
    /\ \E found \in w.searchLists :
        LET c == Ok(Obj([results |-> Arr(found)])) IN
        /\ resps' = [resps EXCEPT ![i] = Append(@, c)]
        /\ outcome' = [outcome EXCEPT ![i] = searchNotion(tool[i].query, c)]
    /\ pc' = [pc EXCEPT ![i] = "done"]
    /\ UNCHANGED <<tool, page, blocks, cursor, calls, pageData, renderVars, propVars>>

\* the search call rejects
SearchFail(i, w) ==
    /\ pc[i] = "search"
    /\ \E cause \in w.causes :
        /\ resps' = [resps EXCEPT ![i] = Append(@, Throw(cause))]
        /\ outcome' = [outcome EXCEPT ![i] = searchNotion(tool[i].query, Throw(cause))]
    /\ pc' = [pc EXCEPT ![i] = "done"]
    /\ UNCHANGED <<tool, page, blocks, cursor, calls, pageData, renderVars, propVars>>

-----------------------------------------------------------------------------
(* The upstream API the invocations run against *)

MaxBlocks == 2
MaxCalls == 3

Paragraph(runs) == WithSub("paragraph", Obj([rich_text |-> Arr(runs)]))

\* listed blocks: text, a paragraph that renders empty, a heading without runs,
\* a divider, a kind outside the closed set, and a heading without its payload
ListedBlocks ==
    {Paragraph(<<Run("Hi")>>), Paragraph(<<>>),
     WithSub("heading_2", Obj([rich_text |-> Arr(<<>>)])),
     Bare("divider"), Bare("image"), Bare("heading_1")}

RECURSIVE SeqsUpTo(_, _)
SeqsUpTo(S, n) ==
    IF n = 0 THEN {<<>>}
    ELSE LET shorter == SeqsUpTo(S, n - 1) IN
         shorter \cup {Append(q, x) : q \in shorter, x \in S}

TitledPage == PageOf(Obj([Name |-> WithSub("title", Arr(<<Run("Doc")>>))]))

Cursors == {Undefined, Null, Str(""), Str("c1"), Str("c2")}
Causes == {"Request timed out", "Could not find block"}

World ==
    [pageIds |-> {"p1"},
     pages |-> {TitledPage},
     resultLists |-> SeqsUpTo(ListedBlocks, MaxBlocks),
     cursors |-> Cursors,
     causes |-> Causes,
     maxBlocks |-> MaxBlocks,
     maxCalls |-> MaxCalls,
     queries |-> {"doc"},
     searchLists |-> {<<>>, <<TitledPage>>}]

Init == InitMachine(1)

Next ==
    \/ \E i \in DOMAIN pc : CallGetPage(i, World)
    \/ \E i \in DOMAIN pc : RetrieveOk(i, World)
    \/ \E i \in DOMAIN pc : RetrieveFail(i, World)
    \/ \E i \in DOMAIN pc : ListOk(i, World)
    \/ \E i \in DOMAIN pc : ListFail(i, World)
    \/ \E i \in DOMAIN pc : CallSearch(i, World)
    \/ \E i \in DOMAIN pc : SearchOk(i, World)
    \/ \E i \in DOMAIN pc : SearchFail(i, World)

Spec == Init /\ [][Next]_vars

-----------------------------------------------------------------------------
(* Several invocations in flight at once: the handlers are async functions of
   one event loop, so the steps of different invocations interleave at their
   awaits *)

NumInv == 2
ConcMaxCalls == 2

ConcWorld ==
    [pageIds |-> {"p1"},
     pages |-> {TitledPage},
     resultLists |-> {<<Paragraph(<<Run("Hi")>>)>>, <<Bare("divider")>>},
     cursors |-> {Null, Str("c1")},
     causes |-> {"Request timed out"},
     maxBlocks |-> ConcMaxCalls,
     maxCalls |-> ConcMaxCalls,
     queries |-> {"doc"},
     searchLists |-> {<<TitledPage>>}]

InitConc == InitMachine(NumInv)

NextConc ==
    \/ \E i \in DOMAIN pc : CallGetPage(i, ConcWorld)
    \/ \E i \in DOMAIN pc : RetrieveOk(i, ConcWorld)
    \/ \E i \in DOMAIN pc : RetrieveFail(i, ConcWorld)
    \/ \E i \in DOMAIN pc : ListOk(i, ConcWorld)
    \/ \E i \in DOMAIN pc : ListFail(i, ConcWorld)
    \/ \E i \in DOMAIN pc : CallSearch(i, ConcWorld)
    \/ \E i \in DOMAIN pc : SearchOk(i, ConcWorld)
    \/ \E i \in DOMAIN pc : SearchFail(i, ConcWorld)

SpecConc == InitConc /\ [][NextConc]_vars

-----------------------------------------------------------------------------
(* Properties of the pagination loop and of a get_notion_page invocation *)

GetInvocations == {i \in DOMAIN pc : tool[i].name = "get_notion_page"}

\* the responses to the listing calls of invocation i, in order (the first
\* response of a get_notion_page invocation answers the page retrieval)
ListResps(i) == SubSeq(resps[i], 2, Len(resps[i]))

NextCursorOf(r) == r.v.o.next_cursor
ResultsOf(r) == r.v.o.results.a

\* the results lists of the resolved responses of rs, concatenated in order
RECURSIVE Concatenated(_)
Concatenated(rs) ==
    IF rs = <<>> THEN <<>>
    ELSE (IF Head(rs).ok THEN ResultsOf(Head(rs)) ELSE <<>>) \o Concatenated(Tail(rs))

\* the sum of the result counts of the resolved responses of rs
RECURSIVE SumOfCounts(_)
SumOfCounts(rs) ==
    IF rs = <<>> THEN 0
    ELSE (IF Head(rs).ok THEN Len(ResultsOf(Head(rs))) ELSE 0) + SumOfCounts(Tail(rs))

\* rs is a complete listing: every response resolved, the cursor truthy on all
\* but the last and falsy on the last
CompleteListing(rs) ==
    /\ Len(rs) >= 1
    /\ \A j \in 1..Len(rs) : rs[j].ok
    /\ \A j \in 1..(Len(rs) - 1) : Truthy(NextCursorOf(rs[j]))
    /\ ~Truthy(NextCursorOf(rs[Len(rs)]))

\* C1: given N listing responses with next_cursor truthy on responses 1..N-1 and
\* falsy on response N, getPageContent has issued exactly N listing calls and the
\* accumulated blocks are the concatenation of the N results lists in response
\* order, of length the sum of the result counts; while the loop runs the
\* accumulator is the concatenation of the results received so far.
C1_PaginationAccumulates ==
    \A i \in GetInvocations :
        LET rs == ListResps(i) IN
        /\ blocks[i] = Concatenated(rs)
        /\ Len(blocks[i]) = SumOfCounts(rs)
        /\ CompleteListing(rs) =>
              /\ pc[i] = "done"
              /\ Len(ListCalls(i)) = Len(rs)
              /\ outcome[i].ok => outcome[i].v.total_blocks = SumOfCounts(rs)

\* three listing responses, one of them empty, two blocks in all, delivered
C1_Witness ==
    \E i \in GetInvocations :
        LET rs == ListResps(i) IN
        /\ CompleteListing(rs) /\ Len(rs) = 3
        /\ \E j \in 1..3 : ResultsOf(rs[j]) = <<>>
        /\ blocks[i] = <<Paragraph(<<Run("Hi")>>), Bare("divider")>>
        /\ outcome[i].ok /\ outcome[i].v.total_blocks = 2

\* C2: the loop stops right after the first listing response whose next_cursor is
\* falsy (undefined, null or ""), with no further listing call, and after a
\* response whose next_cursor is truthy the next listing call has been issued.
C2_StopsOnFalsyCursorOnly ==
    \A i \in GetInvocations :
        LET rs == ListResps(i) IN
        \A j \in 1..Len(rs) :
            rs[j].ok =>
                IF Truthy(NextCursorOf(rs[j]))
                THEN /\ Len(ListCalls(i)) >= j + 1
                     /\ j = Len(rs) => pc[i] = "list"
                ELSE /\ j = Len(rs)
                     /\ Len(ListCalls(i)) = j
                     /\ pc[i] = "done"

\* a listing that went on after a truthy cursor and stopped on the empty string
C2_Witness ==
    \E i \in GetInvocations :
        LET rs == ListResps(i) IN
        /\ Len(rs) = 2 /\ rs[1].ok /\ rs[2].ok
        /\ NextCursorOf(rs[1]) = Str("c1")
        /\ NextCursorOf(rs[2]) = Str("")
        /\ pc[i] = "done" /\ Len(ListCalls(i)) = 2

\* C3: once an upstream call of a get_notion_page invocation has failed, the
\* invocation has issued no call after it (none at all after a failed retrieval
\* but the retrieval itself), getPageContent rejected with "Failed to get page
\* content: <cause>", the handler's outcome is an error whose message carries that
\* rejection's message, and nothing of the accumulated blocks is delivered.
C3_FailureIsTerminal ==
    \A i \in GetInvocations :
        (\E j \in 1..Len(resps[i]) : ~resps[i][j].ok) =>
            LET n == Len(resps[i]) IN
            /\ ~resps[i][n].ok
            /\ \A j \in 1..(n - 1) : resps[i][j].ok
            /\ Len(calls[i]) = n
            /\ pc[i] = "done"
            /\ pageData[i] = Throw("Failed to get page content: " \o resps[i][n].message)
            /\ outcome[i] = Throw("Failed to get page: " \o pageData[i].message)
            /\ DOMAIN outcome[i] = {"ok", "message"}

\* the second listing call fails after the first delivered a block
C3_Witness ==
    \E i \in GetInvocations :
        /\ Len(resps[i]) = 3 /\ ~resps[i][3].ok
        /\ blocks[i] = <<Paragraph(<<Run("Hi")>>)>>
        /\ outcome[i] =
             Throw("Failed to get page: Failed to get page content: Request timed out")

\* C9: the upstream calls of one getPageContent are ordered: one page retrieval,
\* first; then listing calls only, the first with an undefined start cursor, the
\* k-th (k > 1) issued after the (k-1)-th response and carrying its next_cursor;
\* never more than one call without its response.
C9_CallsAreSequential ==
    \A i \in GetInvocations :
        LET cs == calls[i]
            rs == resps[i]
        IN
        /\ Len(cs) >= 1
        /\ cs[1] = [op |-> "pages.retrieve", page_id |-> tool[i].page_id]
        /\ Len(cs) - Len(rs) \in {0, 1}
        /\ \A k \in 2..Len(cs) :
              /\ cs[k].op = "blocks.children.list"
              /\ cs[k].block_id = tool[i].page_id
              /\ k - 1 <= Len(rs)
              /\ rs[k - 1].ok
              /\ cs[k].start_cursor =
                    IF k = 2 THEN Undefined ELSE NextCursorOf(rs[k - 1])

\* the third listing call is outstanding and carries the second response's cursor
C9_Witness ==
    \E i \in GetInvocations :
        /\ Len(calls[i]) = 4 /\ Len(resps[i]) = 3
        /\ NextCursorOf(resps[i][2]) = Str("c1")
        /\ NextCursorOf(resps[i][3]) = Str("c2")
        /\ calls[i][4].start_cursor = Str("c2")

\* the joined run text of a well-formed block's runs
RECURSIVE RunText(_)
RunText(runs) ==
    IF runs = <<>> THEN "" ELSE Head(runs).o.plain_text.s \o RunText(Tail(runs))

IsEmptyParagraph(b) ==
    /\ b.o.type = Str("paragraph")
    /\ RunText(b.o.paragraph.o.rich_text.a) = ""

\* C8: the content of a delivered bundle is the renders of the fetched blocks in
\* fetch order, without the zero-length ones, joined with "\n\n"; a render is
\* zero-length only for a paragraph with empty joined text; the bundle's blocks
\* and total_blocks count every fetched block.
C8_ContentIsFilteredJoin ==
    \A i \in GetInvocations :
        (pc[i] = "done" /\ outcome[i].ok) =>
            LET bs == Concatenated(ListResps(i))
                renders == [j \in 1..Len(bs) |-> renderBlock(bs[j]).v]
                kept == SelectSeq(renders, LAMBDA t : t # "")
                dropped == {j \in 1..Len(bs) : IsEmptyParagraph(bs[j])}
            IN
            /\ outcome[i].v.content = joinWith(kept, "\n\n")
            /\ \A j \in 1..Len(bs) : renders[j] = "" <=> j \in dropped
            /\ Len(kept) = Len(bs) - Cardinality(dropped)
            /\ pageData[i].v.blocks = bs
            /\ outcome[i].v.total_blocks = Len(bs)

\* an empty paragraph is dropped and a heading without runs is kept
C8_Witness ==
    \E i \in GetInvocations :
        /\ pc[i] = "done" /\ outcome[i].ok
        /\ blocks[i] = <<Paragraph(<<>>), WithSub("heading_2", Obj([rich_text |-> Arr(<<>>)]))>>
        /\ outcome[i].v.content = "## "
        /\ outcome[i].v.total_blocks = 2

\* C5: rendering never fails: a block of the closed set whose payload is missing
\* renders to a string, so an invocation whose upstream calls all succeeded
\* never ends in an error outcome.
C5_TransformNeverFails ==
    \A i \in GetInvocations :
        (pc[i] = "done" /\ \A j \in 1..Len(resps[i]) : resps[i][j].ok) => outcome[i].ok

-----------------------------------------------------------------------------
(* Properties of the block renderer *)

IsRun(t) == t.t = "object" /\ "plain_text" \in DOMAIN t.o /\ t.o.plain_text.t = "string"

HasRuns(p) ==
    /\ p.t = "object" /\ "rich_text" \in DOMAIN p.o
    /\ p.o.rich_text.t = "array"
    /\ \A j \in 1..Len(p.o.rich_text.a) : IsRun(p.o.rich_text.a[j])

\* a block carrying what its kind is documented to carry
WellFormedBlock(b) ==
    LET k == b.o.type.s IN
    k \in BLOCK_TYPES \ {"divider"} =>
        /\ k \in DOMAIN b.o /\ HasRuns(b.o[k])
        /\ k = "code" => ("language" \in DOMAIN b.o[k].o /\ b.o[k].o.language.t = "string")
        /\ k = "to_do" => ("checked" \in DOMAIN b.o[k].o => b.o[k].o.checked.t = "boolean")

\* the line the formatting table gives for a well-formed block
TableLine(b) ==
    LET k == b.o.type.s
        text == RunText(b.o[k].o.rich_text.a)
    IN CASE k = "paragraph" -> text
         [] k = "heading_1" -> "# " \o text
         [] k = "heading_2" -> "## " \o text
         [] k = "heading_3" -> "### " \o text
         [] k = "bulleted_list_item" -> "\\u2022 " \o text
         [] k = "numbered_list_item" -> "1. " \o text
         [] k = "to_do" ->
              (IF "checked" \in DOMAIN b.o[k].o /\ b.o[k].o.checked.b
               THEN "\\u2713 " ELSE "\\u25CB ") \o text
         [] k = "toggle" -> "\\u25B8 " \o text
         [] k = "quote" -> "> " \o text
         [] k = "code" ->
              "\\x60\\x60\\x60" \o b.o[k].o.language.s \o "\n" \o text \o "\n\\x60\\x60\\x60"
         [] k = "divider" -> "---"
         [] OTHER -> "[" \o k \o "]"

\* C7: the render of a well-formed block is exactly the line of the formatting
\* table: the joined run text behind the kind's fixed prefix, the fenced form for
\* code, "---" for a divider and "[<kind>]" for a kind outside the closed set.
C7_RenderMatchesTable ==
    (rOut # <<>> /\ WellFormedBlock(rIn)) => rOut[1] = Ok(TableLine(rIn))

\* a checked to_do with one run has been rendered
C7_Witness ==
    /\ rIn = WithSub("to_do", Obj([rich_text |-> Arr(<<Run("Buy milk")>>), checked |-> Bool(TRUE)]))
    /\ rOut = <<Ok("\\u2713 Buy milk")>>

-----------------------------------------------------------------------------
(* Properties of the property normalizer *)

InputProperties == IF "properties" \in DOMAIN pIn.o THEN pIn.o.properties.o ELSE <<>>

\* C4: the keys of extractAllProperties' output are exactly the keys of the
\* page's property map, and none when the page has no property map.
C4_KeysPreserved ==
    pOut # <<>> => (pOut[1].ok /\ DOMAIN pOut[1].v.o = DOMAIN InputProperties)

\* the documented shape of a well-formed property value
DocumentedShape(v) ==
    LET k == v.o.type.s
        sub == v.o[k]
    IN CASE k \in {"title", "rich_text"} -> Str(RunText(sub.a))
         [] k \in {"number", "checkbox", "url", "email", "phone_number"} -> sub
         [] k = "select" -> sub.o.name
         [] k = "multi_select" -> Arr([j \in 1..Len(sub.a) |-> sub.a[j].o.name])
         [] k = "date" -> sub.o.start
         [] k = "people" ->
              Arr([j \in 1..Len(sub.a) |->
                      IF "name" \in DOMAIN sub.a[j].o THEN sub.a[j].o.name ELSE sub.a[j].o.id])
         [] k = "relation" -> Arr([j \in 1..Len(sub.a) |-> sub.a[j].o.id])

\* the documented default of a kind whose sub-field is missing
SafeDefault(k) ==
    CASE k \in {"title", "rich_text"} -> {Str("")}
      [] k \in {"select", "date"} -> {Null}
      [] k \in {"multi_select", "people", "relation"} -> {Arr(<<>>)}
      [] OTHER -> {Str(""), Null, Arr(<<>>)}

\* C6: for every property value of a supported kind, the value returned under
\* its key is the documented shape when the value is well-formed and the
\* documented safe default (one of "", null, []) when the kind's sub-field is
\* missing, and extractAllProperties does not fail.
C6_ShapesAndDefaults ==
    pOut # <<>> =>
        /\ pOut[1].ok
        /\ \A key \in DOMAIN InputProperties \cap DOMAIN pOut[1].v.o :
              LET v == InputProperties[key]
                  k == v.o.type.s
              IN k \in PROPERTY_TYPES =>
                    pOut[1].v.o[key] \in
                        IF IsNullish(Get(v, k)) THEN SafeDefault(k) ELSE {DocumentedShape(v)}

-----------------------------------------------------------------------------
(* Properties of concurrent invocations *)

\* the outcome of an invocation of tool t that runs alone and receives rs
SoloOutcome(t, rs) ==
    IF t.name = "search_notion" THEN searchNotion(t.query, rs[1])
    ELSE IF ~rs[Len(rs)].ok
        THEN getNotionPage(t.page_id, getPageContentCatch(rs[Len(rs)]))
    ELSE getNotionPage(t.page_id,
            getPageContentCatch(
                pageContentBundle(rs[1].v, Concatenated(SubSeq(rs, 2, Len(rs))))))

\* C10: whatever the interleaving, the accumulator and cursor of an invocation
\* hold what its own listing responses put there, and its outcome is the one it
\* would have alone against the same responses, whatever the others did.
C10_InvocationsAreIndependent ==
    \A i \in DOMAIN pc :
        /\ pc[i] = "done" => outcome[i] = SoloOutcome(tool[i], resps[i])
        /\ pc[i] = "list" =>
              /\ blocks[i] = Concatenated(ListResps(i))
              /\ cursor[i] = IF ListResps(i) = <<>> THEN Undefined
                             ELSE NextCursorOf(resps[i][Len(resps[i])])

\* one invocation failed at its second listing call while another, started
\* meanwhile, is between its listing calls with its own block and cursor
C10_Witness ==
    /\ pc[1] = "done" /\ Len(resps[1]) = 3 /\ ~outcome[1].ok
    /\ blocks[1] = <<Paragraph(<<Run("Hi")>>)>>
    /\ pc[2] = "list" /\ Len(resps[2]) = 2
    /\ blocks[2] = <<Bare("divider")>> /\ cursor[2] = Str("c1")

====
